---- MODULE Spec2Model ----
(***************************************************************************)
(* Distributed training loop of train_encoder.py: one process per rank,    *)
(* each running main(); the processes meet only in collectives (the        *)
(* gradient all-reduce inside the DDP backward, dist.all_reduce of the     *)
(* window loss, dist.barrier after the checkpoint branch).  A collective   *)
(* completes when every rank of the group has entered it.                  *)
(*                                                                         *)
(* Tensors of the encoder are opaque: the live parameters, the optimizer   *)
(* state and the EMA shadow are tracked in the training loop by version    *)
(* stamps.  The arithmetic of update_ema itself is modelled on exact       *)
(* rationals in the second specification, SpecEma.                         *)
(***************************************************************************)
EXTENDS Integers, Sequences, FiniteSets, TLC

\* ------------------------------------------------------------------ bounds
NumProcs == 2
Epochs == 2
BatchesPerEpoch == 1
MaxParams == 2
MaxEvents == 1

\* ------------------------------------------------- GradScaler() defaults
InitScale == 65536
GrowthInterval == 2000

Ranks == 0 .. (NumProcs - 1)
world_size == NumProcs

\* ------------------------------------------------------- float arithmetic
\* A float is finite (an exact rational n/d), +inf, -inf or NaN.
Fin(n) == [k |-> "fin", n |-> n, d |-> 1]
NaN == [k |-> "nan", n |-> 0, d |-> 1]
PInf == [k |-> "inf", n |-> 0, d |-> 1]
NInf == [k |-> "ninf", n |-> 0, d |-> 1]

Abs(x) == IF x < 0 THEN -x ELSE x

RECURSIVE GCD(_, _)
GCD(a, b) == IF b = 0 THEN a ELSE GCD(b, a % b)

Rat(n, d) ==
  LET g == GCD(Abs(n), d)
  IN  [k |-> "fin", n |-> n \div g, d |-> d \div g]

FAdd(a, b) ==
  IF a.k = "nan" \/ b.k = "nan" THEN NaN
  ELSE IF a.k = "fin" /\ b.k = "fin" THEN Rat(a.n * b.d + b.n * a.d, a.d * b.d)
  ELSE IF a.k = "fin" THEN b
  ELSE IF b.k = "fin" THEN a
  ELSE IF a.k = b.k THEN a
  ELSE NaN

\* a * m for an integer m > 0
FMulInt(a, m) == IF a.k = "fin" THEN Rat(a.n * m, a.d) ELSE a

\* a / m for an integer m > 0
FDivInt(a, m) == IF a.k = "fin" THEN Rat(a.n, a.d * m) ELSE a

\* a * (n/d) for a finite a
FMulRat(a, n, d) == Rat(a.n * n, a.d * d)

isnan(x) == x.k = "nan"

\* The values tried for --log-every and --ckpt-every.
EveryChoices == {1, 2}

\* The losses the Loss Engine may hand to the coordinator.  A run sees the
\* usual loss on most batches and, on at most MaxEvents batches, another
\* finite loss, an infinite one, NaN, or gradients holding inf/NaN.
UsualLoss == Fin(1)

Losses == {Fin(1), Fin(2), NaN, PInf, NInf}

VARIABLES
  args,          \* the parsed configuration
  pc,            \* each rank's position in main()
  epoch, item,   \* loop indices
  loss,          \* loss of the current batch
  scaled_loss,   \* scaler.scale(loss)
  grads,         \* gradient buffers: "none", "zero" (cleared), "synced" (after backward)
  train_steps, log_steps, running_loss,
  avg_loss,      \* the avg_loss tensor, then float
  contrib,       \* the local window mean each rank put into the all-reduce
  scale, growth_tracker, found_inf,   \* GradScaler state
  model,         \* version of the live parameters
  opt,           \* version of the optimizer state
  ema,           \* EMA shadow: number of blends, live version last blended, decay used
  ckpts,         \* checkpoints written, in order
  sinks,         \* each rank's logger sinks
  log_out,       \* log lines emitted
  coll_seq,      \* collectives each rank has entered, in order
  events,        \* batches so far with an unusual loss or with inf/NaN gradients
  seen,          \* batches each rank has taken from its loader: NaN losses, other losses
  trace,         \* the operations of each rank's current iteration, in program order
  \* one call of update_ema on explicit parameter values (SpecEma)
  e_pc,          \* "ready", "returned" or "raised"
  e_ema,         \* the shadow's named parameters
  e_model,       \* the live model's named parameters
  e_decay,       \* decay, as <<numerator, denominator>>
  e_ema0,        \* the shadow's parameters when the call began
  e_model0       \* the live parameters when the call began

tvars == <<args, pc, epoch, item, loss, scaled_loss, grads, train_steps, log_steps,
          running_loss, avg_loss, contrib, scale, growth_tracker, found_inf,
          model, opt, ema, ckpts, sinks, log_out, coll_seq,
          events, seen, trace>>

evars == <<e_pc, e_ema, e_model, e_decay, e_ema0, e_model0>>

vars == <<tvars, evars>>

\* ------------------------------------------------------------- logging
\* loguru's logger comes with a stderr sink; create_logger adds a file sink
\* on rank 0 and returns the same logger on every rank.
DefaultSinks == {"stderr"}

create_logger(rank) ==
  IF rank = 0 THEN DefaultSinks \cup {"file"} ELSE DefaultSinks

\* logger.info on rank p: one line on each sink of p's logger.
Emit(p, msg, step) ==
  {[rank |-> p, sink |-> s, msg |-> msg, step |-> step] : s \in sinks[p]}

\* --------------------------------------------------------- GradScaler
\* scaler = GradScaler(): constructed without the autocast flag.
scaler_enabled == TRUE

ScalerScale(l, sc) == IF scaler_enabled THEN FMulInt(l, sc) ELSE l

\* scaler.step(opt) applies opt.step() unless it found inf/NaN gradients.
ScalerStepApplies(fi) == ~(scaler_enabled /\ fi)

\* scaler.update(): <<scale, growth_tracker>> for the next iteration.
ScalerUpdate(sc, gt, fi) ==
  IF ~scaler_enabled THEN <<sc, gt>>
  ELSE IF fi THEN <<sc \div 2, 0>>
  ELSE IF gt + 1 = GrowthInterval THEN <<sc * 2, 0>>
  ELSE <<sc, gt + 1>>

\* ------------------------------------------------------------ update_ema
\* Parameter names, in the order named_parameters() yields them.
Names == 1 .. MaxParams

\* An initial call that leaves the decay at the default of update_ema.
InitDecayDefault == <<9999, 10000>>

ZeroDecay == <<0, 1>>
DefaultDecay == <<9999, 10000>>

\* A blend with the two weights exchanged.
EmaElementSwapped(s, l, decay) ==
  FAdd(FMulRat(s, decay[2] - decay[1], decay[2]), FMulRat(l, decay[1], decay[2]))

\* ema_params[name].mul_(decay).add_(param.data, alpha=1 - decay)
EmaElement(s, l, decay) ==
  FAdd(FMulRat(s, decay[1], decay[2]), FMulRat(l, decay[2] - decay[1], decay[2]))

\* The loop over model_params.items(), from name n on.  ema_params[name] of a
\* name the shadow lacks raises KeyError and leaves the loop there.
RECURSIVE EmaLoop(_, _, _, _)
EmaLoop(ema_params, model_params, decay, n) ==
  IF n > MaxParams
  THEN [ema |-> ema_params, model |-> model_params, raised |-> FALSE]
  ELSE IF n \notin DOMAIN model_params
  THEN EmaLoop(ema_params, model_params, decay, n + 1)
  ELSE IF n \notin DOMAIN ema_params
  THEN [ema |-> ema_params, model |-> model_params, raised |-> TRUE]
  ELSE EmaLoop([ema_params EXCEPT ![n] = EmaElement(@, model_params[n], decay)],
               model_params, decay, n + 1)

update_ema(ema_params, model_params, decay) ==
  EmaLoop(ema_params, model_params, decay, 1)

\* The inputs tried: parameter sets over any names, with small values.
ParamValues == {Fin(0), Fin(1), Fin(2)}

ParamSets == UNION {[S -> ParamValues] : S \in SUBSET Names}

Decays == {ZeroDecay, <<1, 2>>, DefaultDecay, <<1, 1>>}

\* ------------------------------------------------------- EMA in the loop
\* update_ema(ema, model.module, decay) on version stamps: the shadow has been
\* blended once more, last with the live version given.
EmaBlend(e, live, decay) ==
  [calls |-> e.calls + 1, src |-> live, decay |-> decay]

\* ------------------------------------------------- program order
\* Lines 53-98: what main() does before the loop, in order.
SetupOps ==
  <<"GradScaler", "create_logger", "deepcopy", "DDP", "optimizer", "loader",
    "update_ema(decay=0)", "counters">>

\* Lines 117-130: the head of an iteration; the skip test comes before the
\* backward.
BatchOps(skip) ==
  <<"zero_grad", "forward", "loss", "isnan">>
    \o (IF skip THEN << >> ELSE <<"scale", "backward">>)

\* An iteration that updates the EMA before the optimizer step.
StepOpsEmaFirst ==
  <<"update_ema", "scaler.step", "scaler.update", "running_loss", "log_steps",
    "train_steps", "log_check">>

\* Lines 131-139: after the backward.
StepOps ==
  <<"scaler.step", "scaler.update", "update_ema", "running_loss", "log_steps",
    "train_steps", "log_check">>

\* Lines 140-153: the metrics round after the all-reduce.
LogOps == <<"mean", "log_line", "reset">>

\* Lines 155-167: the checkpoint branch of rank p, due or not.
CkptOps(p, due) ==
  <<"ckpt_check">>
    \o (IF due /\ p = 0 THEN <<"save">> ELSE << >>)
    \o (IF due THEN <<"barrier">> ELSE << >>)

\* ------------------------------------------------------------------ Init
ArgsSet ==
  [log_every : EveryChoices, ckpt_every : EveryChoices,
   autocast : BOOLEAN, epochs : {Epochs}]

TrainInit ==
  /\ args \in ArgsSet
  /\ pc = [p \in Ranks |-> "init"]
  /\ epoch = [p \in Ranks |-> 0]
  /\ item = [p \in Ranks |-> 0]
  /\ loss = [p \in Ranks |-> Fin(0)]
  /\ scaled_loss = [p \in Ranks |-> Fin(0)]
  /\ grads = [p \in Ranks |-> "none"]
  /\ train_steps = [p \in Ranks |-> 0]
  /\ log_steps = [p \in Ranks |-> 0]
  /\ running_loss = [p \in Ranks |-> Fin(0)]
  /\ avg_loss = [p \in Ranks |-> Fin(0)]
  /\ contrib = [p \in Ranks |-> Fin(0)]
  /\ scale = [p \in Ranks |-> InitScale]
  /\ growth_tracker = [p \in Ranks |-> 0]
  /\ found_inf = [p \in Ranks |-> FALSE]
  /\ model = [p \in Ranks |-> 0]
  /\ opt = [p \in Ranks |-> 0]
  /\ ema = [p \in Ranks |-> [calls |-> 0, src |-> 0, decay |-> ZeroDecay]]
  /\ ckpts = << >>
  /\ sinks = [p \in Ranks |-> DefaultSinks]
  /\ log_out = {}
  /\ coll_seq = [p \in Ranks |-> << >>]
  /\ events = 0
  /\ seen = [p \in Ranks |-> [nan |-> 0, other |-> 0]]
  /\ trace = [p \in Ranks |-> << >>]

\* No call of update_ema on explicit values is in progress.
EmaIdle ==
  /\ e_pc = "idle"
  /\ e_ema = << >>
  /\ e_model = << >>
  /\ e_decay = ZeroDecay
  /\ e_ema0 = << >>
  /\ e_model0 = << >>

\* ------------------------------------------------------------- actions
\* main(), lines 52-103: logger, model, EMA copy, DDP wrapper, optimizer,
\* the decay-0 update_ema, the counters.
Setup(p) ==
  /\ pc[p] = "init"
  /\ sinks' = [sinks EXCEPT ![p] = create_logger(p)]
  /\ ema' = [ema EXCEPT ![p] = EmaBlend(ema[p], model[p], ZeroDecay)]
  /\ train_steps' = [train_steps EXCEPT ![p] = 0]
  /\ log_steps' = [log_steps EXCEPT ![p] = 0]
  /\ running_loss' = [running_loss EXCEPT ![p] = Fin(0)]
  /\ log_out' = IF p = 0
                THEN log_out \cup {[rank |-> p, sink |-> s, msg |-> "setup", step |-> 0]
                                     : s \in create_logger(p)}
                ELSE log_out
  /\ pc' = [pc EXCEPT ![p] = "loop"]
  /\ UNCHANGED <<args, epoch, item, loss, scaled_loss, grads, avg_loss, contrib,
                 scale, growth_tracker, found_inf, model, opt, ckpts,
                 coll_seq, events, seen>>
  /\ trace' = [trace EXCEPT ![p] = SetupOps]
  /\ UNCHANGED evars

\* A coordinator that abandons every batch whose loss is not finite.
SkipBatchNonFinite(l) == l.k # "fin"

\* A coordinator that never abandons a batch.
SkipBatchNever(l) == FALSE

\* Line 126: torch.isnan(loss).any(), the condition of the skip.
SkipBatch(l) == isnan(l)

\* Lines 110-130: the next batch of the epoch: zero_grad, forward, loss, the
\* NaN check, and for a loss that is not NaN the scaled backward, whose
\* gradient all-reduce the rank now waits in.
BeginBatch(p, l) ==
  /\ pc[p] = "loop"
  /\ epoch[p] < args.epochs
  /\ item[p] < BatchesPerEpoch
  /\ l # UsualLoss => events < MaxEvents
  /\ events' = IF l # UsualLoss THEN events + 1 ELSE events
  /\ item' = [item EXCEPT ![p] = item[p] + 1]
  /\ grads' = [grads EXCEPT ![p] = "zero"]
  /\ loss' = [loss EXCEPT ![p] = l]
  /\ seen' = [seen EXCEPT ![p] = IF isnan(l) THEN [@ EXCEPT !.nan = @ + 1]
                                             ELSE [@ EXCEPT !.other = @ + 1]]
  /\ trace' = [trace EXCEPT ![p] = BatchOps(SkipBatch(l))]
  /\ IF SkipBatch(l)
     THEN /\ log_out' = log_out \cup Emit(p, "nan", train_steps[p])
          /\ UNCHANGED <<pc, scaled_loss, coll_seq>>
     ELSE /\ scaled_loss' = [scaled_loss EXCEPT ![p] = ScalerScale(l, scale[p])]
          /\ coll_seq' = [coll_seq EXCEPT ![p] = Append(coll_seq[p], "backward")]
          /\ pc' = [pc EXCEPT ![p] = "backward"]
          /\ UNCHANGED log_out
  /\ UNCHANGED <<args, epoch, train_steps, log_steps, running_loss, avg_loss,
                 contrib, scale, growth_tracker, found_inf, model, opt,
                 ema, ckpts, sinks>>
  /\ UNCHANGED evars

\* An epoch boundary that starts the counters again.
EndEpochResetting(p) ==
  /\ pc[p] = "loop"
  /\ epoch[p] < args.epochs
  /\ item[p] = BatchesPerEpoch
  /\ epoch' = [epoch EXCEPT ![p] = epoch[p] + 1]
  /\ item' = [item EXCEPT ![p] = 0]
  /\ train_steps' = [train_steps EXCEPT ![p] = 0]
  /\ log_steps' = [log_steps EXCEPT ![p] = 0]
  /\ running_loss' = [running_loss EXCEPT ![p] = Fin(0)]
  /\ IF epoch[p] + 1 < args.epochs
     THEN /\ log_out' = IF p = 0 THEN log_out \cup Emit(p, "epoch", epoch[p] + 1)
                        ELSE log_out
          /\ UNCHANGED pc
     ELSE /\ pc' = [pc EXCEPT ![p] = "done"]
          /\ UNCHANGED log_out
  /\ UNCHANGED <<args, loss, scaled_loss, grads, avg_loss, contrib, scale,
                 growth_tracker, found_inf, model, opt, ema, ckpts, sinks,
                 coll_seq, events, seen, trace>>
  /\ UNCHANGED evars

\* Lines 104-110 and 169: the loader is exhausted; the next epoch begins or
\* the loop over epochs ends.
EndEpoch(p) ==
  /\ pc[p] = "loop"
  /\ epoch[p] < args.epochs
  /\ item[p] = BatchesPerEpoch
  /\ epoch' = [epoch EXCEPT ![p] = epoch[p] + 1]
  /\ item' = [item EXCEPT ![p] = 0]
  /\ IF epoch[p] + 1 < args.epochs
     THEN /\ log_out' = IF p = 0 THEN log_out \cup Emit(p, "epoch", epoch[p] + 1)
                        ELSE log_out
          /\ UNCHANGED pc
     ELSE /\ pc' = [pc EXCEPT ![p] = "done"]
          /\ UNCHANGED log_out
  /\ UNCHANGED <<args, loss, scaled_loss, grads, train_steps, log_steps,
                 running_loss, avg_loss, contrib, scale, growth_tracker, found_inf,
                 model, opt, ema, ckpts, sinks, coll_seq, events, seen, trace>>
  /\ UNCHANGED evars

\* Line 130: every rank has entered the backward; the gradients are averaged
\* over the ranks, so every rank's scaler finds the same gradients.
BackwardSync ==
  /\ \A p \in Ranks : pc[p] = "backward"
  /\ \E fi \in BOOLEAN :
        /\ fi => events < MaxEvents
        /\ events' = IF fi THEN events + 1 ELSE events
        /\ found_inf' = [p \in Ranks |-> fi]
  /\ grads' = [p \in Ranks |-> "synced"]
  /\ pc' = [p \in Ranks |-> "step"]
  /\ UNCHANGED <<args, epoch, item, loss, scaled_loss, train_steps, log_steps,
                 running_loss, avg_loss, contrib, scale, growth_tracker,
                 model, opt, ema, ckpts, sinks, log_out, coll_seq, seen, trace>>
  /\ UNCHANGED evars

\* dist.all_reduce(avg_loss, op=SUM) over the values the ranks put in.
RECURSIVE SumUpTo(_, _)
SumUpTo(f, n) == IF n < 0 THEN Fin(0) ELSE FAdd(SumUpTo(f, n - 1), f[n])

ReduceSum(f) == SumUpTo(f, NumProcs - 1)

\* A mean that forgets the division by the world size.
GlobalMeanUndivided(t) == t

\* Line 147: avg_loss.item() / dist.get_world_size().
GlobalMean(t) == FDivInt(t, world_size)

\* Line 155: the checkpoint condition.
CkptDue(ts) == ts % args.ckpt_every = 0 /\ ts > 0

\* f"{train_steps:07d}": the decimal digits of the step, most significant
\* first, padded on the left with zeros up to the width.
RECURSIVE Digits(_)
Digits(n) == IF n < 10 THEN <<n>> ELSE Append(Digits(n \div 10), n % 10)

RECURSIVE ZeroPad(_, _)
ZeroPad(ds, w) == IF Len(ds) >= w THEN ds ELSE ZeroPad(<<0>> \o ds, w)

PathWidth == 7

Format07d(n) == ZeroPad(Digits(n), PathWidth)

\* A checkpoint branch in which every rank writes.
CkptWriteAnyRank(p, ts, params, shadow, optst) ==
  IF CkptDue(ts)
  THEN Append(ckpts, [rank |-> p, step |-> ts, name |-> Format07d(ts),
                      model |-> params, ema |-> shadow, opt |-> optst,
                      args |-> args])
  ELSE ckpts

\* A checkpoint that saves the shadow of before the step's EMA update.
CkptWriteStaleEma(p, ts, params, shadow, optst) ==
  IF CkptDue(ts) /\ p = 0
  THEN Append(ckpts, [rank |-> p, step |-> ts, name |-> Format07d(ts),
                      model |-> params, ema |-> ema[p], opt |-> optst,
                      args |-> args])
  ELSE ckpts

\* Lines 156-164: the checkpoints on disk after rank p passed the branch at
\* step ts.
CkptWrite(p, ts, params, shadow, optst) ==
  IF CkptDue(ts) /\ p = 0
  THEN Append(ckpts, [rank |-> p, step |-> ts, name |-> Format07d(ts),
                      model |-> params, ema |-> shadow, opt |-> optst,
                      args |-> args])
  ELSE ckpts

\* Lines 165-166: the line logged for a checkpoint.
CkptLines(p, ts) ==
  IF CkptDue(ts) /\ p = 0 THEN Emit(p, "saved", ts) ELSE {}

\* A checkpoint branch without the barrier.
CkptNextNoBarrier(ts) == "loop"

\* Line 167: where the iteration goes after the checkpoint branch: into the
\* barrier, or back to the loader.
CkptNext(ts) == IF CkptDue(ts) THEN "barrier" ELSE "loop"

CkptColl(p, ts) ==
  IF CkptDue(ts) THEN Append(coll_seq[p], "barrier") ELSE coll_seq[p]

\* A metrics round that also runs on the first step.
LogDueFirstStepToo(ts) == ts % args.log_every = 0 \/ ts = 1

\* Line 139: the condition of the metrics round.
LogDue(ts) == ts % args.log_every = 0

\* An iteration whose EMA update and step counter run only when the scaler
\* applied the optimizer update.
ApplyOpOnlyIfApplied(op, st, fi, l) ==
  CASE op = "scaler.step" ->
         IF ScalerStepApplies(fi)
         THEN [st EXCEPT !.model = @ + 1, !.opt = @ + 1]
         ELSE st
    [] op = "scaler.update" ->
         [st EXCEPT !.scale = ScalerUpdate(st.scale, st.growth_tracker, fi)[1],
                    !.growth_tracker = ScalerUpdate(st.scale, st.growth_tracker, fi)[2]]
    [] op = "update_ema" /\ ScalerStepApplies(fi) ->
         [st EXCEPT !.ema = EmaBlend(st.ema, st.model, DefaultDecay)]
    [] op = "running_loss" -> [st EXCEPT !.running_loss = FAdd(@, l)]
    [] op = "log_steps" -> [st EXCEPT !.log_steps = @ + 1]
    [] op = "train_steps" /\ ScalerStepApplies(fi) -> [st EXCEPT !.train_steps = @ + 1]
    [] OTHER -> st

\* Lines 131-138, one statement on the iteration's values st, for the
\* gradients' flag fi and the loss l.
ApplyOp(op, st, fi, l) ==
  CASE op = "scaler.step" ->
         IF ScalerStepApplies(fi)
         THEN [st EXCEPT !.model = @ + 1, !.opt = @ + 1]
         ELSE st
    [] op = "scaler.update" ->
         [st EXCEPT !.scale = ScalerUpdate(st.scale, st.growth_tracker, fi)[1],
                    !.growth_tracker = ScalerUpdate(st.scale, st.growth_tracker, fi)[2]]
    [] op = "update_ema" ->
         [st EXCEPT !.ema = EmaBlend(st.ema, st.model, DefaultDecay)]
    [] op = "running_loss" -> [st EXCEPT !.running_loss = FAdd(@, l)]
    [] op = "log_steps" -> [st EXCEPT !.log_steps = @ + 1]
    [] op = "train_steps" -> [st EXCEPT !.train_steps = @ + 1]
    [] OTHER -> st

\* The statements ops one after the other.
RECURSIVE RunOps(_, _, _, _)
RunOps(ops, st, fi, l) ==
  IF ops = << >> THEN st
  ELSE RunOps(Tail(ops), ApplyOp(Head(ops), st, fi, l), fi, l)

\* Lines 131-146, 155-167: scaler.step, scaler.update, update_ema, the
\* counters; then, when train_steps is a multiple of log_every, the local
\* mean handed to dist.all_reduce, and otherwise the checkpoint branch.
Step(p) ==
  LET st == RunOps(StepOps,
                   [model |-> model[p], opt |-> opt[p], scale |-> scale[p],
                    growth_tracker |-> growth_tracker[p], ema |-> ema[p],
                    running_loss |-> running_loss[p], log_steps |-> log_steps[p],
                    train_steps |-> train_steps[p]],
                   found_inf[p], loss[p])
      ts == st.train_steps
  IN  /\ pc[p] = "step"
      /\ model' = [model EXCEPT ![p] = st.model]
      /\ opt' = [opt EXCEPT ![p] = st.opt]
      /\ scale' = [scale EXCEPT ![p] = st.scale]
      /\ growth_tracker' = [growth_tracker EXCEPT ![p] = st.growth_tracker]
      /\ ema' = [ema EXCEPT ![p] = st.ema]
      /\ running_loss' = [running_loss EXCEPT ![p] = st.running_loss]
      /\ log_steps' = [log_steps EXCEPT ![p] = st.log_steps]
      /\ train_steps' = [train_steps EXCEPT ![p] = ts]
      /\ IF LogDue(ts)
         THEN /\ contrib' = [contrib EXCEPT ![p] = FDivInt(st.running_loss, st.log_steps)]
              /\ avg_loss' = [avg_loss EXCEPT ![p] = FDivInt(st.running_loss, st.log_steps)]
              /\ coll_seq' = [coll_seq EXCEPT ![p] = Append(coll_seq[p], "all_reduce")]
              /\ pc' = [pc EXCEPT ![p] = "all_reduce"]
              /\ trace' = [trace EXCEPT ![p] = trace[p] \o StepOps \o <<"all_reduce">>]
              /\ UNCHANGED <<ckpts, log_out>>
         ELSE /\ ckpts' = CkptWrite(p, ts, st.model, st.ema, st.opt)
              /\ log_out' = log_out \cup CkptLines(p, ts)
              /\ coll_seq' = [coll_seq EXCEPT ![p] = CkptColl(p, ts)]
              /\ pc' = [pc EXCEPT ![p] = CkptNext(ts)]
              /\ trace' = [trace EXCEPT ![p] = trace[p] \o StepOps
                                                   \o CkptOps(p, CkptDue(ts))]
              /\ UNCHANGED <<contrib, avg_loss>>
      /\ UNCHANGED <<args, epoch, item, loss, scaled_loss, grads, found_inf, sinks,
                     events, seen>>
      /\ UNCHANGED evars

\* Line 146: every rank has entered the all-reduce.
AllReduceSync ==
  /\ \A p \in Ranks : pc[p] = "all_reduce"
  /\ avg_loss' = [p \in Ranks |-> ReduceSum(avg_loss)]
  /\ pc' = [p \in Ranks |-> "logemit"]
  /\ UNCHANGED <<args, epoch, item, loss, scaled_loss, grads, train_steps,
                 log_steps, running_loss, contrib, scale, growth_tracker, found_inf,
                 model, opt, ema, ckpts, sinks, log_out, coll_seq,
                 events, seen, trace>>
  /\ UNCHANGED evars

\* Lines 147-167: the global mean, the progress line, the window reset, then
\* the checkpoint branch.
LogEmit(p) ==
  /\ pc[p] = "logemit"
  /\ avg_loss' = [avg_loss EXCEPT ![p] = GlobalMean(avg_loss[p])]
  /\ running_loss' = [running_loss EXCEPT ![p] = Fin(0)]
  /\ log_steps' = [log_steps EXCEPT ![p] = 0]
  /\ ckpts' = CkptWrite(p, train_steps[p], model[p], ema[p], opt[p])
  /\ log_out' = log_out \cup Emit(p, "progress", train_steps[p])
                        \cup CkptLines(p, train_steps[p])
  /\ coll_seq' = [coll_seq EXCEPT ![p] = CkptColl(p, train_steps[p])]
  /\ pc' = [pc EXCEPT ![p] = CkptNext(train_steps[p])]
  /\ UNCHANGED <<args, epoch, item, loss, scaled_loss, grads, train_steps, contrib,
                 scale, growth_tracker, found_inf, model, opt, ema,
                 sinks, events, seen>>
  /\ trace' = [trace EXCEPT ![p] = trace[p] \o LogOps
                                       \o CkptOps(p, CkptDue(train_steps[p]))]
  /\ UNCHANGED evars

\* Line 167: every rank has entered the barrier.
BarrierSync ==
  /\ \A p \in Ranks : pc[p] = "barrier"
  /\ pc' = [p \in Ranks |-> "loop"]
  /\ UNCHANGED <<args, epoch, item, loss, scaled_loss, grads, train_steps,
                 log_steps, running_loss, avg_loss, contrib, scale, growth_tracker,
                 found_inf, model, opt, ema, ckpts, sinks, log_out,
                 coll_seq, events, seen, trace>>
  /\ UNCHANGED evars

Init == TrainInit /\ EmaIdle

Next ==
  \/ \E p \in Ranks : Setup(p)
  \/ \E p \in Ranks : \E l \in Losses : BeginBatch(p, l)
  \/ \E p \in Ranks : EndEpoch(p)
  \/ BackwardSync
  \/ \E p \in Ranks : Step(p)
  \/ AllReduceSync
  \/ \E p \in Ranks : LogEmit(p)
  \/ BarrierSync

Spec == Init /\ [][Next]_vars

\* ------------------------------------------- runs without a NaN loss
\* No rank ever computes a NaN loss.  Every rank is a running process and a
\* collective completes once all ranks are in it, so a step that can be taken
\* is eventually taken.
LossesNoNaN == {l \in Losses : ~isnan(l)}

NextNoNaN ==
  \/ \E p \in Ranks : Setup(p)
  \/ \E p \in Ranks : \E l \in LossesNoNaN : BeginBatch(p, l)
  \/ \E p \in Ranks : EndEpoch(p)
  \/ BackwardSync
  \/ \E p \in Ranks : Step(p)
  \/ AllReduceSync
  \/ \E p \in Ranks : LogEmit(p)
  \/ BarrierSync

SpecNoNaN == Init /\ [][NextNoNaN]_vars /\ WF_vars(NextNoNaN)

\* --------------------------------------------- update_ema on its own
\* The training loop stands still, in one configuration.
TrainIdle ==
  /\ TrainInit
  /\ args = [log_every |-> 1, ckpt_every |-> 1, autocast |-> FALSE, epochs |-> Epochs]

EmaInit ==
  /\ TrainIdle
  /\ e_pc = "ready"
  /\ e_ema \in ParamSets
  /\ e_model \in ParamSets
  /\ e_decay \in Decays
  /\ e_ema0 = e_ema
  /\ e_model0 = e_model

\* Lines 38-48: one call update_ema(ema_model, model, decay).
CallUpdateEma ==
  LET r == update_ema(e_ema, e_model, e_decay)
  IN  /\ e_pc = "ready"
      /\ e_ema' = r.ema
      /\ e_model' = r.model
      /\ e_pc' = IF r.raised THEN "raised" ELSE "returned"
      /\ UNCHANGED <<e_decay, e_ema0, e_model0>>
      /\ UNCHANGED tvars

NextEma == CallUpdateEma

SpecEma == EmaInit /\ [][NextEma]_vars

\* ================================================================ claims
Waiting(p) == pc[p] \in {"backward", "all_reduce", "barrier"}

\* Rank p takes its next batch in this step.
TakesBatch(p) == pc[p] = "loop" /\ item'[p] = item[p] + 1

\* Nothing of rank p's training state changes in this step, no collective is
\* entered and no checkpoint is written.
StepAbandoned(p) ==
  /\ pc'[p] = "loop"
  /\ grads'[p] # "synced"
  /\ coll_seq'[p] = coll_seq[p]
  /\ model'[p] = model[p]
  /\ opt'[p] = opt[p]
  /\ scale'[p] = scale[p]
  /\ growth_tracker'[p] = growth_tracker[p]
  /\ ema'[p] = ema[p]
  /\ train_steps'[p] = train_steps[p]
  /\ running_loss'[p] = running_loss[p]
  /\ log_steps'[p] = log_steps[p]
  /\ ckpts' = ckpts

\* C1: on every rank, a batch whose loss is NaN is over within the step that
\* takes it, with no backward pass, no optimizer step, no EMA update and no
\* checkpoint, and with train_steps, running_loss and log_steps as they were
\* before the batch.
C1_NaNSkipFrame ==
  [][\A p \in Ranks : (TakesBatch(p) /\ isnan(loss'[p])) => StepAbandoned(p)]_vars

\* A rank that has counted a step into an open log window has then skipped a
\* NaN batch.
C1_Witness ==
  \E p \in Ranks :
    /\ pc[p] = "loop"
    /\ isnan(loss[p])
    /\ train_steps[p] = 1
    /\ log_steps[p] = 1
    /\ running_loss[p] = Fin(1)

\* C2: no rank has left the training loop while another rank waits in a
\* collective (a backward, an all-reduce or a barrier that the rank which
\* left will never enter), and ranks that have all left have entered the same
\* sequence of collectives.
C2_CollectivesMatch ==
  /\ \A p, q \in Ranks : pc[p] = "done" => ~Waiting(q)
  /\ \A p, q \in Ranks : (pc[p] = "done" /\ pc[q] = "done") => coll_seq[p] = coll_seq[q]

\* The steps of rank 0 whose checkpoint branch rank 0 has passed.
StepsBranched(p) ==
  IF pc[p] \in {"all_reduce", "logemit"} THEN train_steps[p] - 1 ELSE train_steps[p]

\* C3: the checkpoints written are exactly one for each positive multiple of
\* ckpt_every that a non-skipped iteration of rank 0 has left train_steps at,
\* in order, each written by rank 0; a skipped batch adds none.
C3_CheckpointCadence ==
  /\ Len(ckpts) = StepsBranched(0) \div args.ckpt_every
  /\ \A i \in 1 .. Len(ckpts) :
       ckpts[i].rank = 0 /\ ckpts[i].step = i * args.ckpt_every

\* Rank 0 wrote the checkpoint of step 1 and then skipped a NaN batch while
\* train_steps was still 1.
C3_Witness ==
  /\ args.ckpt_every = 1
  /\ train_steps[0] = 1
  /\ isnan(loss[0])
  /\ epoch[0] >= 1
  /\ pc[0] \in {"loop", "done"}
  /\ Len(ckpts) = 1

\* Rank p is past the barrier of step k.
PastBarrier(p, k) ==
  \/ train_steps[p] > k
  \/ train_steps[p] = k /\ pc[p] \notin {"all_reduce", "logemit", "barrier"}

RECURSIVE CountOf(_, _)
CountOf(seq, x) ==
  IF seq = << >> THEN 0
  ELSE (IF Head(seq) = x THEN 1 ELSE 0) + CountOf(Tail(seq), x)

\* C4: every rank has entered the barrier once for each positive multiple of
\* ckpt_every its train_steps has reached, and no rank is past the barrier of
\* step k before rank 0 has written the checkpoint of step k.
C4_CheckpointBarrier ==
  \A p \in Ranks :
    /\ CountOf(coll_seq[p], "barrier") = StepsBranched(p) \div args.ckpt_every
    /\ \A k \in 1 .. train_steps[p] :
         (k % args.ckpt_every = 0 /\ PastBarrier(p, k))
           => \E i \in 1 .. Len(ckpts) : ckpts[i].step = k /\ ckpts[i].rank = 0

\* A rank other than 0 has begun the iteration after a checkpoint step.
C4_Witness ==
  \E p \in Ranks \ {0} :
    /\ train_steps[p] = 1
    /\ args.ckpt_every = 1
    /\ pc[p] = "backward"
    /\ Len(ckpts) = 1

\* C5: a batch whose loss is +inf or -inf is abandoned like a NaN batch, and
\* no infinite value ever enters running_loss.
C5_InfSkipped ==
  [][\A p \in Ranks :
       /\ (TakesBatch(p) /\ loss'[p].k \in {"inf", "ninf"}) => StepAbandoned(p)
       /\ running_loss'[p].k = "fin"]_vars

\* C6: the progress line of a metrics round is emitted by rank 0 only; no
\* rank other than 0 ever emits it.
C6_OnlyRank0Emits ==
  \A ln \in log_out : ln.msg = "progress" => ln.rank = 0

\* Rank p has reported the window that ended at its train_steps, and no rank
\* has begun a later step.
Reported(p) ==
  /\ train_steps[p] > 0
  /\ train_steps[p] % args.log_every = 0
  /\ pc[p] \in {"barrier", "loop", "backward", "done"}

RECURSIVE DenProduct(_)
DenProduct(n) == IF n < 0 THEN 1 ELSE contrib[n].d * DenProduct(n - 1)

\* The numerator of the sum of the finite local means over the common
\* denominator DenProduct(NumProcs - 1).
RECURSIVE NumSum(_)
NumSum(n) ==
  IF n < 0 THEN 0
  ELSE contrib[n].n * (DenProduct(NumProcs - 1) \div contrib[n].d) + NumSum(n - 1)

KindsIn == {contrib[q].k : q \in Ranks}

\* x is (a_1 + ... + a_W) / W for the local means a_q = contrib[q], in IEEE
\* arithmetic: NaN if a mean is NaN or both infinities occur, an infinity if
\* only that one occurs.
IsMeanOfContribs(x) ==
  IF "nan" \in KindsIn \/ {"inf", "ninf"} \subseteq KindsIn THEN x.k = "nan"
  ELSE IF "inf" \in KindsIn THEN x.k = "inf"
  ELSE IF "ninf" \in KindsIn THEN x.k = "ninf"
  ELSE /\ x.k = "fin"
       /\ x.n * world_size * DenProduct(NumProcs - 1) = x.d * NumSum(NumProcs - 1)

\* C7: after a metrics round every rank's avg_loss is the sum of the local
\* window means of all ranks divided by the world size.
C7_AggregatedMean ==
  \A p \in Ranks : Reported(p) => IsMeanOfContribs(avg_loss[p])

\* Two ranks with local means 1 and 2 have both reported 3/2.
C7_Witness ==
  /\ {contrib[q] : q \in Ranks} = {Fin(1), Fin(2)}
  /\ \A p \in Ranks : Reported(p) /\ avg_loss[p] = [k |-> "fin", n |-> 3, d |-> 2]

\* C8: without --autocast the scaler passes through: scale(loss) is the loss,
\* step(optimizer) applies the update on every step, update() leaves the
\* scale factor alone.
C8_ScalerPassThrough ==
  [][~args.autocast =>
       \A p \in Ranks :
         /\ (pc[p] = "loop" /\ pc'[p] = "backward") => scaled_loss'[p] = loss'[p]
         /\ (pc[p] = "step" /\ pc'[p] # "step")
              => (opt'[p] = opt[p] + 1 /\ scale'[p] = scale[p])]_vars

\* C9: a call of update_ema whose two key sets differ, in either direction,
\* raises, with every shadow parameter as it was.
C9_KeyMismatchFatal ==
  (e_pc \in {"returned", "raised"} /\ DOMAIN e_ema0 # DOMAIN e_model0)
    => (e_pc = "raised" /\ e_ema = e_ema0)

\* s' = s * d + l * (1 - d), over the integers.
BlendOf(r, s, l, decay) ==
  /\ r.k = "fin"
  /\ r.n * s.d * l.d * decay[2]
       = r.d * (s.n * decay[1] * l.d + l.n * (decay[2] - decay[1]) * s.d)

\* C10: a call of update_ema on equal key sets returns with every shadow
\* parameter equal to old_shadow * d + live * (1 - d), the shadow's key set
\* and the live parameters unchanged; with d = 0 the shadow equals the live
\* parameters.
C10_EmaUpdateLaw ==
  (e_pc # "ready" /\ e_pc # "idle" /\ DOMAIN e_ema0 = DOMAIN e_model0)
    => /\ e_pc = "returned"
       /\ DOMAIN e_ema = DOMAIN e_ema0
       /\ e_model = e_model0
       /\ \A n \in DOMAIN e_ema : BlendOf(e_ema[n], e_ema0[n], e_model0[n], e_decay)
       /\ e_decay = ZeroDecay => e_ema = e_model

\* Decay 0.9999, shadow 0, live 1: the shadow is 1/10000 after the call.
C10_Witness ==
  /\ e_pc = "returned"
  /\ e_decay = DefaultDecay
  /\ DOMAIN e_ema0 = Names
  /\ DOMAIN e_model0 = Names
  /\ \A n \in Names : e_ema0[n] = Fin(0) /\ e_model0[n] = Fin(1)
  /\ \A n \in Names : e_ema[n] = [k |-> "fin", n |-> 1, d |-> 10000]

\* Every rank waits in the same collective.
AllIn(c) == \A p \in Ranks : pc[p] = c

BatchesTaken(p) == seen[p].nan + seen[p].other

\* Where rank p stands within an iteration.
Phase(p) ==
  CASE pc[p] = "init" -> 0
    [] pc[p] = "backward" -> 1
    [] pc[p] = "step" -> 2
    [] pc[p] = "all_reduce" -> 3
    [] pc[p] = "logemit" -> 4
    [] pc[p] = "barrier" -> 5
    [] pc[p] = "loop" -> 6
    [] pc[p] = "done" -> 7

\* How far rank p has come: a number that bounds the steps it has taken.
Progress(p) == 6 * BatchesTaken(p) + epoch[p] + Phase(p)

RECURSIVE ProgressUpTo(_)
ProgressUpTo(n) == IF n < 0 THEN 0 ELSE Progress(n) + ProgressUpTo(n - 1)

\* The only calls that block are the collectives.  The run is stuck when no
\* rank is running, some rank has not finished, and the ranks are not all in
\* one collective, which would then complete.
Stuck ==
  /\ \A p \in Ranks : Waiting(p) \/ pc[p] = "done"
  /\ \E p \in Ranks : pc[p] # "done"
  /\ \A c \in {"backward", "all_reduce", "barrier"} : ~AllIn(c)

\* C11: in a run where no rank computes a NaN loss, the run is never stuck
\* before every rank has left the loop over the epochs (no rank is left
\* waiting in a collective), every step brings some rank nearer to the end,
\* which is a bounded number of steps away, so that under fair scheduling
\* every rank finishes; a rank that has finished has taken exactly Epochs *
\* BatchesPerEpoch batches and counted each; and whenever all ranks are in a
\* collective their train_steps are equal.
C11_TerminatesInStep ==
  /\ [](~Stuck)
  /\ [][ProgressUpTo(NumProcs - 1)' > ProgressUpTo(NumProcs - 1)]_vars
  /\ [](\A p \in Ranks : Progress(p) <= 6 * args.epochs * BatchesPerEpoch
                                          + args.epochs + 7)
  /\ [](\A p \in Ranks :
          pc[p] = "done" => (/\ epoch[p] = args.epochs
                             /\ BatchesTaken(p) = args.epochs * BatchesPerEpoch
                             /\ train_steps[p] = args.epochs * BatchesPerEpoch))
  /\ [](\A c \in {"backward", "all_reduce", "barrier"} :
          AllIn(c) => \A p, q \in Ranks : train_steps[p] = train_steps[q])

\* All ranks are done after a run in which they met in a barrier.
C11_Witness ==
  /\ \A p \in Ranks : pc[p] = "done" /\ train_steps[p] = Epochs * BatchesPerEpoch
  /\ \A p \in Ranks : CountOf(coll_seq[p], "barrier") >= 1
  /\ \A p \in Ranks : CountOf(coll_seq[p], "all_reduce") >= 1

\* Rank p is in a metrics round: between handing its window mean to the
\* all-reduce and the reset of the window.
InMetricsRound(p) == pc[p] \in {"all_reduce", "logemit"}

\* C12: a rank has entered the metrics all-reduce once for every multiple of
\* log_every its train_steps has reached, so a round runs exactly after the
\* counted iterations that leave train_steps at such a multiple and after no
\* skipped one; in every round log_steps equals log_every and the window
\* mean is running_loss divided by it; outside a round log_steps equals
\* train_steps mod log_every, and running_loss is 0 whenever log_steps is.
C12_MetricsCadence ==
  \A p \in Ranks :
    /\ CountOf(coll_seq[p], "all_reduce") = train_steps[p] \div args.log_every
    /\ InMetricsRound(p)
         => /\ train_steps[p] > 0
            /\ train_steps[p] % args.log_every = 0
            /\ log_steps[p] = args.log_every
            /\ contrib[p] = FDivInt(running_loss[p], args.log_every)
    /\ ~InMetricsRound(p)
         => /\ log_steps[p] = train_steps[p] % args.log_every
            /\ log_steps[p] = 0 => running_loss[p] = Fin(0)

\* A rank is in the round that closes a window of two steps.
C12_Witness ==
  \E p \in Ranks :
    /\ pc[p] = "logemit"
    /\ args.log_every = 2
    /\ log_steps[p] = 2
    /\ train_steps[p] = 2

\* The batches of rank p whose loss was not NaN and whose iteration has
\* reached the counters.
CountedBatches(p) ==
  seen[p].other - (IF pc[p] \in {"backward", "step"} THEN 1 ELSE 0)

\* C13: on every rank train_steps never decreases and changes only by +1,
\* and it equals the number of batches the rank has processed whose loss was
\* not NaN.
C13_StepCounting ==
  /\ [](\A p \in Ranks : train_steps[p] = CountedBatches(p))
  /\ [][\A p \in Ranks : \/ train_steps'[p] = train_steps[p]
                         \/ train_steps'[p] = train_steps[p] + 1]_vars

\* A rank has skipped one NaN batch and counted one other batch.
C13_Witness ==
  \E p \in Ranks :
    /\ seen[p].nan = 1
    /\ seen[p].other = 1
    /\ train_steps[p] = 1
    /\ pc[p] = "done"

\* The positions of operation x in a trace.
Places(tr, x) == {i \in 1 .. Len(tr) : tr[i] = x}

\* Rank p is about to take its first batch.
AtFirstBatch(p) == pc[p] = "loop" /\ BatchesTaken(p) = 0

\* C14: when a rank is about to take its first batch it has called
\* update_ema with decay 0 exactly once, after wrapping the model in DDP, and
\* its shadow is a copy of its live parameters; from then on the shadow has
\* been updated once per counted step, with decay 0.9999 after the first
\* step; and the shadow changes in no step other than the setup and a
\* counted iteration's update_ema.
C14_EmaInitOrder ==
  /\ [](\A p \in Ranks :
          /\ AtFirstBatch(p)
               => /\ Cardinality(Places(trace[p], "update_ema(decay=0)")) = 1
                  /\ \E i \in Places(trace[p], "DDP") :
                       \A j \in Places(trace[p], "update_ema(decay=0)") : i < j
                  /\ ema[p] = [calls |-> 1, src |-> model[p], decay |-> <<0, 1>>]
          /\ pc[p] # "init" => ema[p].calls = 1 + train_steps[p]
          /\ train_steps[p] > 0 => ema[p].decay = <<9999, 10000>>)
  /\ [][\A p \in Ranks :
          ema'[p] # ema[p]
            => /\ ema'[p].calls = ema[p].calls + 1
               /\ \/ pc[p] = "init" /\ ema'[p].decay = <<0, 1>>
                  \/ /\ pc[p] = "step"
                     /\ train_steps'[p] = train_steps[p] + 1
                     /\ ema'[p].decay = <<9999, 10000>>
                     /\ Cardinality(Places(trace'[p], "update_ema")) = 1]_vars

\* A rank's shadow has been blended twice with decay 0.9999 after the initial
\* copy, while the optimizer applied only one update.
C14_Witness ==
  \E p \in Ranks :
    /\ ema[p].calls = 3
    /\ ema[p].decay = <<9999, 10000>>
    /\ train_steps[p] = 2
    /\ opt[p] = 1

\* The order of an iteration.
IterationOrder ==
  <<"zero_grad", "forward", "loss", "isnan", "scale", "backward", "scaler.step",
    "scaler.update", "update_ema", "running_loss", "log_steps", "train_steps",
    "log_check", "all_reduce", "mean", "log_line", "reset", "ckpt_check",
    "save", "barrier">>

\* The operations of the branches, absent from an iteration whose branch is
\* not taken.
BranchOps == {"all_reduce", "mean", "log_line", "reset", "save", "barrier"}

IterationOps == {IterationOrder[k] : k \in 1 .. Len(IterationOrder)}

\* The place of each operation in IterationOrder.
OrderOf ==
  [x \in IterationOps |-> CHOOSE i \in 1 .. Len(IterationOrder) : IterationOrder[i] = x]

\* tr begins an iteration and follows IterationOrder, leaving out nothing
\* but operations of branches.
InOrder(tr) ==
  /\ tr[1] = "zero_grad"
  /\ \A i \in 1 .. Len(tr) : tr[i] \in IterationOps
  /\ \A i \in 1 .. (Len(tr) - 1) :
       /\ OrderOf[tr[i]] < OrderOf[tr[i + 1]]
       /\ \A k \in (OrderOf[tr[i]] + 1) .. (OrderOf[tr[i + 1]] - 1) :
            IterationOrder[k] \in BranchOps

\* C15: the operations of every iteration run in the order zero_grad,
\* forward, loss, NaN check, scaled backward, scaler step, scaler update, EMA
\* update, running-loss accumulation and counter increments, metrics check,
\* checkpoint check; an iteration that was not skipped runs through the
\* checkpoint check; the EMA update of a step reads the live parameters the
\* optimizer step of that step has left; and the all-reduce of a step comes
\* before the barrier of that step.
C15_StepOrder ==
  /\ [](\A p \in Ranks :
          /\ BatchesTaken(p) > 0 => InOrder(trace[p])
          /\ (BatchesTaken(p) > 0 /\ ~isnan(loss[p]) /\ pc[p] \in {"loop", "done", "barrier"})
               => Places(trace[p], "ckpt_check") # {}
          /\ \A i \in Places(trace[p], "all_reduce") :
               \A j \in Places(trace[p], "barrier") : i < j
          /\ pc[p] # "init" => ema[p].src = model[p])
  /\ [][\A p \in Ranks :
          (pc[p] = "step" /\ pc'[p] # "step")
            => /\ ema'[p].src = model'[p]
               /\ ~found_inf[p] => model'[p] = model[p] + 1]_vars

\* Rank 0 has run an iteration with both branches and waits in the barrier.
C15_Witness ==
  /\ pc[0] = "barrier"
  /\ Places(trace[0], "all_reduce") # {}
  /\ Places(trace[0], "save") # {}
  /\ Len(trace[0]) = Len(IterationOrder)
  /\ ~found_inf[0]

\* The number a sequence of decimal digits writes.
RECURSIVE DigitsValue(_)
DigitsValue(ds) ==
  IF ds = << >> THEN 0
  ELSE 10 * DigitsValue(SubSeq(ds, 1, Len(ds) - 1)) + ds[Len(ds)]

\* ds is the number n written in exactly seven decimal digits.
IsSevenDigitsOf(ds, n) ==
  /\ Len(ds) = 7
  /\ \A i \in 1 .. 7 : ds[i] \in 0 .. 9
  /\ DigitsValue(ds) = n

\* C16: the file written for step k is named by k in seven digits, padded
\* with zeros, and holds the entries model, ema, opt and args; at the moment
\* it is written, within iteration k of rank 0, model, ema and opt are rank
\* 0's live parameters, shadow and optimizer state, the shadow having been
\* updated k times since its initial copy and last from the saved live
\* parameters, so that nothing of step k + 1 is in the file.
C16_CheckpointContent ==
  /\ [](\A i \in 1 .. Len(ckpts) :
          /\ {"model", "ema", "opt", "args"} \subseteq DOMAIN ckpts[i]
          /\ DOMAIN ckpts[i] \ {"model", "ema", "opt", "args"} = {"rank", "step", "name"}
          /\ IsSevenDigitsOf(ckpts[i].name, ckpts[i].step)
          /\ ckpts[i].args = args
          /\ ckpts[i].ema.calls = 1 + ckpts[i].step
          /\ ckpts[i].ema.src = ckpts[i].model
          /\ ckpts[i].opt = ckpts[i].model
          /\ ckpts[i].model <= ckpts[i].step)
  /\ [](\A n \in {1, 10, 6000, 9999999} : IsSevenDigitsOf(Format07d(n), n))
  /\ [][ckpts' # ckpts
         => /\ Len(ckpts') = Len(ckpts) + 1
            /\ pc[0] \in {"step", "logemit"}
            /\ ckpts'[Len(ckpts')].step = train_steps'[0]
            /\ ckpts'[Len(ckpts')].model = model'[0]
            /\ ckpts'[Len(ckpts')].ema = ema'[0]
            /\ ckpts'[Len(ckpts')].opt = opt'[0]]_vars

\* The checkpoint of step 2 is on disk after that of step 1, step 2 being
\* one whose optimizer update the scaler skipped.
C16_Witness ==
  /\ Len(ckpts) = 2
  /\ ckpts[2].name = <<0, 0, 0, 0, 0, 0, 2>>
  /\ ckpts[2].ema.calls = 3
  /\ ckpts[2].model = 1
  /\ ckpts[1].model = 1

\* Rank p runs the part of an iteration after the backward in this step.
RunsStep(p) == pc[p] = "step" /\ pc'[p] # "step"

\* C17: the part of an iteration after the backward updates the EMA once,
\* adds the loss to running_loss and increments log_steps and train_steps,
\* whether the scaler applied the optimizer update or, having found inf/NaN
\* gradients, skipped it; so train_steps is never less than the number of
\* updates applied, and a step whose update was skipped enters the metrics
\* round and the checkpoint branch like any other.
C17_ScalerSkipCounts ==
  /\ [][\A p \in Ranks :
          RunsStep(p)
            => /\ ema'[p].calls = ema[p].calls + 1
               /\ running_loss'[p] = FAdd(running_loss[p], loss[p])
               /\ log_steps'[p] = log_steps[p] + 1
               /\ train_steps'[p] = train_steps[p] + 1
               /\ opt'[p] = IF found_inf[p] THEN opt[p] ELSE opt[p] + 1
               /\ train_steps'[p] % args.log_every = 0 => pc'[p] = "all_reduce"
               /\ (train_steps'[p] % args.log_every # 0
                     /\ train_steps'[p] % args.ckpt_every = 0)
                    => (pc'[p] = "barrier" /\ (p = 0 => Len(ckpts') = Len(ckpts) + 1))]_vars
  /\ [](\A p \in Ranks : opt[p] <= train_steps[p])

\* Rank 0 has saved the checkpoint of step 1, a step whose optimizer update
\* the scaler skipped, and has counted it in the log window.
C17_Witness ==
  /\ pc[0] = "barrier"
  /\ found_inf[0]
  /\ train_steps[0] = 1
  /\ log_steps[0] = 1
  /\ opt[0] = 0
  /\ Len(ckpts) = 1
  /\ ckpts[1].opt = 0

\* The batches of the current epoch and of the epochs before it that rank p
\* has run to the counters.
BatchesThrough(p) ==
  epoch[p] * BatchesPerEpoch + item[p]
    - (IF pc[p] \in {"backward", "step"} THEN 1 ELSE 0)

\* C18: at an epoch boundary the batch index goes back to 0 while
\* train_steps, log_steps and running_loss stay as they are, and train_steps
\* never goes back to 0; so on a rank that has skipped no batch train_steps
\* counts the batches of all epochs, and the checkpoint of step k is written
\* in epoch floor((k - 1) / BatchesPerEpoch), whether or not ckpt_every
\* divides BatchesPerEpoch.
C18_CountersSpanEpochs ==
  /\ [][\A p \in Ranks :
          /\ epoch'[p] # epoch[p]
               => /\ epoch'[p] = epoch[p] + 1
                  /\ item'[p] = 0
                  /\ train_steps'[p] = train_steps[p]
                  /\ log_steps'[p] = log_steps[p]
                  /\ running_loss'[p] = running_loss[p]
          /\ train_steps[p] > 0 => train_steps'[p] > 0]_vars
  /\ [](\A p \in Ranks : seen[p].nan = 0 => train_steps[p] = BatchesThrough(p))
  /\ [][(ckpts' # ckpts /\ seen[0].nan = 0)
         => epoch[0] = (ckpts'[Len(ckpts')].step - 1) \div BatchesPerEpoch]_vars

\* With ckpt_every 2 the first checkpoint, of step 2, is written in the
\* second epoch, by a rank 0 that has skipped no batch and carries a log
\* window over the epoch boundary.
C18_Witness ==
  /\ args.ckpt_every = 2
  /\ BatchesPerEpoch % 2 # 0
  /\ seen[0].nan = 0
  /\ Len(ckpts) = 1
  /\ ckpts[1].step = 2
  /\ epoch[0] = (2 - 1) \div BatchesPerEpoch
  /\ epoch[0] >= 1
  /\ pc[0] = "barrier"

====
